---- MODULE Spec2Model ----
(***************************************************************************)
(* A model of nn/modules.py: the layers Linear and Conv2D, the sequential  *)
(* container Model, and the forward / backward / update_gradient calls.    *)
(*                                                                         *)
(* numpy arrays are mutable buffers: the model keeps them in a heap, and   *)
(* an attribute or a dictionary entry holds a reference into the heap, so  *)
(* that aliasing and in-place mutation are visible.  A tensor is a         *)
(* function from 0-based index tuples to numbers; float64 values are       *)
(* modelled by integers (only +, - and * are applied to them).             *)
(***************************************************************************)
EXTENDS Integers, Sequences, FiniteSets, TLC

VARIABLES
    layers,   \* Model.layers: the list of layer objects (object ids)
    obj,      \* the layer objects: object id -> attributes
    heap,     \* the array buffers: reference -> tensor
    cfg,      \* which program was run to build the Model (fixed by Init)
    log       \* the calls made so far, each with the state it started in

vars == <<layers, obj, heap, cfg, log>>

\* The number of top-level calls a run makes.
MaxCalls == 4

\* Python's None, as the value of an exception slot.
None == "None"

\* An optional value: <<>> is None, <<v>> is the value v.
Some(v) == <<v>>

IsNone(o) == Len(o) = 0

(***************************************************************************)
(* Tensors                                                                 *)
(***************************************************************************)
Range(f) == {f[k] : k \in DOMAIN f}

\* The index set of axis k of tensor t.
Axis(t, k) == 0 .. (Cardinality({p[k] : p \in DOMAIN t}) - 1)

Idx1(n) == {<<i>> : i \in 0 .. (n - 1)}

\* np.array literals: a vector, and a matrix given by its rows.
Vec(s) == [p \in Idx1(Len(s)) |-> s[p[1] + 1]]

Mat(rows) ==
    [p \in (0 .. (Len(rows) - 1)) \X (0 .. (Len(rows[1]) - 1)) |->
        rows[p[1] + 1][p[2] + 1]]

\* np.zeros(n) and np.zeros_like(t).
zeros(n) == [p \in Idx1(n) |-> 0]

zeros_like(t) == [p \in DOMAIN t |-> 0]

\* The sum of f over the index set S.
RECURSIVE Sum(_, _)
Sum(f, S) ==
    IF S = {} THEN 0
    ELSE LET e == CHOOSE e \in S : TRUE IN f[e] + Sum(f, S \ {e})

\* t * lr, element-wise.
Scale(t, lr) == [p \in DOMAIN t |-> t[p] * lr]

\* p - n * lr * g, element-wise.
Descent(p, g, n, lr) == [q \in DOMAIN p |-> p[q] - n * lr * g[q]]

(***************************************************************************)
(* The heap                                                                *)
(***************************************************************************)
\* The reference of a newly created array: the lowest free one.
NewRef(h) ==
    CHOOSE r \in 1 .. (Cardinality(DOMAIN h) + 1) :
        /\ r \notin DOMAIN h
        /\ \A q \in 1 .. (r - 1) : q \in DOMAIN h

\* A new array holding v.
Alloc(h, v) == [heap |-> h @@ (NewRef(h) :> v), ref |-> NewRef(h)]

\* The references one layer object holds.
RefsOf(o) ==
    {o.weight, o.bias, o.g_weight, o.g_bias} \cup Range(o.weights)
        \cup Range(o.gradients)

\* Arrays no object refers to any more are freed.
Collect(objs, h) ==
    LET live == UNION {RefsOf(objs[l]) : l \in DOMAIN objs}
    IN  [r \in (DOMAIN h) \cap live |-> h[r]]

\* A slip: a = a - delta, which binds the name to a new array.
ISubMutant(h, ref, delta) ==
    Alloc(h, [p \in DOMAIN h[ref] |-> h[ref][p] - delta[p]])

\* a -= delta on the array behind ref: the buffer is mutated in place, and the
\* name is bound to the same array again.
ISub(h, ref, delta) ==
    [heap |-> [h EXCEPT ![ref] = [p \in DOMAIN @ |-> @[p] - delta[p]]],
     ref |-> ref]

(***************************************************************************)
(* layers.py: the numeric helpers of the Linear layer                      *)
(***************************************************************************)
\* output[b,o] = sum_i x[b,i] * W[i,o] + bias[o]
fc_forward(x, W, b) ==
    LET ins == Axis(W, 1)
    IN  [p \in Axis(x, 1) \X Axis(W, 2) |->
            Sum([i \in ins |-> x[p[1], i] * W[i, p[2]]], ins) + b[<<p[2]>>]]

\* dw = z^T . next_dz, db = column sum of next_dz, dz = next_dz . W^T.
\* With z = None the array operations on z raise before anything is returned.
fc_backward(next_dz, W, z) ==
    IF IsNone(z) THEN [exc |-> "TypeError"]
    ELSE LET zv    == z[1]
             batch == Axis(next_dz, 1)
             ins   == Axis(W, 1)
             outs  == Axis(W, 2)
         IN  [exc |-> None,
              dw |-> [p \in ins \X outs |->
                        Sum([b \in batch |-> zv[b, p[1]] * next_dz[b, p[2]]], batch)],
              db |-> [p \in Idx1(Cardinality(outs)) |->
                        Sum([b \in batch |-> next_dz[b, p[1]]], batch)],
              dz |-> [p \in batch \X ins |->
                        Sum([o \in outs |-> next_dz[p[1], o] * W[p[2], o]], outs)]]

(***************************************************************************)
(* clayers / layers.py: the numeric helpers of the Conv2D layer            *)
(***************************************************************************)
\* A 4-d array literal, given as nested rows.
Ten4(s) ==
    [p \in (0 .. (Len(s) - 1)) \X (0 .. (Len(s[1]) - 1))
            \X (0 .. (Len(s[1][1]) - 1)) \X (0 .. (Len(s[1][1][1]) - 1)) |->
        s[p[1] + 1][p[2] + 1][p[3] + 1][p[4] + 1]]

Size(t, k) == Cardinality(Axis(t, k))

\* z with padding[1] zero rows and padding[2] zero columns on each border.
Pad(z, padding) ==
    LET rows == Axis(z, 3)
        cols == Axis(z, 4)
    IN  [p \in Axis(z, 1) \X Axis(z, 2)
                \X (0 .. (Cardinality(rows) + 2 * padding[1] - 1))
                \X (0 .. (Cardinality(cols) + 2 * padding[2] - 1)) |->
            IF (p[3] - padding[1]) \in rows /\ (p[4] - padding[2]) \in cols
            THEN z[p[1], p[2], p[3] - padding[1], p[4] - padding[2]]
            ELSE 0]

\* out = floor((n + 2 * pad - k) / stride) + 1
OutSize(n, k, pad, stride) == ((n + 2 * pad - k) \div stride) + 1

\* The output positions of a convolution of z with kernel K.
OutIdx(z, K, padding, stride) ==
    (0 .. (OutSize(Size(z, 3), Size(K, 3), padding[1], stride[1]) - 1))
        \X (0 .. (OutSize(Size(z, 4), Size(K, 4), padding[2], stride[2]) - 1))

\* out[n,o,y,x] = sum_{c,kh,kw} padded[n,c,y*sH+kh,x*sW+kw] * K[c,o,kh,kw] + b[o]
conv_forward(z, K, b, padding, stride) ==
    LET pz  == Pad(z, padding)
        win == Axis(K, 1) \X Axis(K, 3) \X Axis(K, 4)
        out == OutIdx(z, K, padding, stride)
    IN  [p \in {<<n, o, yx[1], yx[2]>> : n \in Axis(z, 1), o \in Axis(K, 2), yx \in out} |->
            Sum([q \in win |->
                    pz[p[1], q[1], p[3] * stride[1] + q[2], p[4] * stride[2] + q[3]]
                        * K[q[1], p[2], q[2], q[3]]], win)
                + b[<<p[2]>>]]

\* dK[c,o,kh,kw] = sum_{n,y,x} padded[n,c,y*sH+kh,x*sW+kw] * next_dz[n,o,y,x];
\* db[o] = sum_{n,y,x} next_dz[n,o,y,x]; dz scatters next_dz * K over the padded
\* input positions each output position read, adding up where windows overlap,
\* and crops the padding.  With z = None the padding of z raises.
conv_backward(next_dz, K, z, padding, stride) ==
    IF IsNone(z) THEN [exc |-> "TypeError"]
    ELSE LET zv   == z[1]
             pz   == Pad(zv, padding)
             pos  == Axis(next_dz, 1) \X Axis(next_dz, 3) \X Axis(next_dz, 4)
             taps == Axis(K, 2) \X Axis(next_dz, 3) \X Axis(next_dz, 4)
                        \X Axis(K, 3) \X Axis(K, 4)
             dpz  == [p \in DOMAIN pz |->
                        LET hit == {t \in taps :
                                      /\ t[2] * stride[1] + t[4] = p[3]
                                      /\ t[3] * stride[2] + t[5] = p[4]}
                        IN  Sum([t \in hit |->
                                    next_dz[p[1], t[1], t[2], t[3]]
                                        * K[p[2], t[1], t[4], t[5]]], hit)]
         IN  [exc |-> None,
              dw |-> [p \in DOMAIN K |->
                        Sum([q \in pos |->
                                pz[q[1], p[1], q[2] * stride[1] + p[3],
                                   q[3] * stride[2] + p[4]]
                                    * next_dz[q[1], p[2], q[2], q[3]]], pos)],
              db |-> [p \in Idx1(Size(K, 2)) |->
                        Sum([q \in pos |-> next_dz[q[1], p[1], q[2], q[3]]], pos)],
              dz |-> [p \in DOMAIN zv |->
                        dpz[p[1], p[2], p[3] + padding[1], p[4] + padding[2]]]]

(***************************************************************************)
(* class BaseModule, class Linear                                          *)
(***************************************************************************)
\* What a call hands back: the state it leaves, its return value (optional),
\* the exception it raised (None if it returned), the layer calls it made.
Returned(objs, h, ret, calls) ==
    [obj |-> objs, heap |-> h, ret |-> ret, exc |-> None, calls |-> calls]

Raised(objs, h, exc, calls) ==
    [obj |-> objs, heap |-> h, ret |-> <<>>, exc |-> exc, calls |-> calls]

BaseModule_init(name) ==
    [name |-> name, weights |-> <<>>, gradients |-> <<>>, in_features |-> <<>>]

\* Linear(in_units, out_units, name=name); randn is the matrix that
\* np.random.randn(in_units, out_units) draws.
Linear_init(st, in_units, out_units, name, randn) ==
    LET base == BaseModule_init(name)
        w    == Alloc(st.heap, randn)
        b    == Alloc(w.heap, zeros(out_units))
        gw   == Alloc(b.heap, zeros_like(randn))
        gb   == Alloc(gw.heap, zeros_like(zeros(out_units)))
        self == Cardinality(DOMAIN st.obj) + 1
        o    == [kind |-> "Linear",
                 name |-> base.name,
                 in_features |-> base.in_features,
                 weight |-> w.ref,
                 bias |-> b.ref,
                 g_weight |-> gw.ref,
                 g_bias |-> gb.ref,
                 weights |-> ((name \o "_weight") :> w.ref)
                                @@ ((name \o "_bias") :> b.ref),
                 gradients |-> ((name \o "_weight") :> w.ref)
                                @@ ((name \o "_bias") :> b.ref)]
    IN  [obj |-> st.obj @@ (self :> o), heap |-> gb.heap, self |-> self]

\* A slip: the output is computed with g_bias where bias is meant.
Linear_forwardMutant(self, x, st) ==
    LET o    == st.obj[self]
        o2   == [o EXCEPT !.in_features = Some(x)]
        objs == [st.obj EXCEPT ![self] = o2]
        output == fc_forward(x, st.heap[o2.weight], st.heap[o2.g_bias])
    IN  Returned(objs, st.heap, Some(output), <<>>)

Linear_forward(self, x, st) ==
    LET o    == st.obj[self]
        o2   == [o EXCEPT !.in_features = Some(x)]
        objs == [st.obj EXCEPT ![self] = o2]
        output == fc_forward(x, st.heap[o2.weight], st.heap[o2.bias])
    IN  Returned(objs, st.heap, Some(output), <<>>)

\* A slip: the new gradients are added to the stored ones.
Linear_backwardMutant(self, in_gradient, st) ==
    LET o == st.obj[self]
        r == fc_backward(in_gradient, st.heap[o.weight], o.in_features)
    IN  IF r.exc # None THEN Raised(st.obj, st.heap, r.exc, <<>>)
        ELSE LET gw   == Alloc(st.heap, Descent(st.heap[o.g_weight], r.dw, -1, 1))
                 gb   == Alloc(gw.heap, Descent(gw.heap[o.g_bias], r.db, -1, 1))
                 o2   == [o EXCEPT !.g_weight = gw.ref, !.g_bias = gb.ref]
                 objs == [st.obj EXCEPT ![self] = o2]
             IN  Returned(objs, Collect(objs, gb.heap), Some(r.dz), <<>>)

Linear_backward(self, in_gradient, st) ==
    LET o == st.obj[self]
        r == fc_backward(in_gradient, st.heap[o.weight], o.in_features)
    IN  IF r.exc # None THEN Raised(st.obj, st.heap, r.exc, <<>>)
        ELSE LET gw   == Alloc(st.heap, r.dw)
                 gb   == Alloc(gw.heap, r.db)
                 o2   == [o EXCEPT !.g_weight = gw.ref, !.g_bias = gb.ref]
                 objs == [st.obj EXCEPT ![self] = o2]
             IN  Returned(objs, Collect(objs, gb.heap), Some(r.dz), <<>>)

Linear_update_gradient(self, lr, st) ==
    LET o  == st.obj[self]
        w  == ISub(st.heap, o.weight, Scale(st.heap[o.g_weight], lr))
        o2 == [o EXCEPT !.weight = w.ref]
        b  == ISub(w.heap, o2.bias, Scale(w.heap[o2.g_bias], lr))
        o3 == [o2 EXCEPT !.bias = b.ref]
        objs == [st.obj EXCEPT ![self] = o3]
    IN  Returned(objs, Collect(objs, b.heap), <<>>, <<>>)

(***************************************************************************)
(* class Conv2D                                                            *)
(***************************************************************************)
\* Conv2D(in_filters, out_filters, kernel, padding, stride, name=name); randn
\* is the tensor np.random.randn(in_filters, out_filters, *kernel) draws.
Conv2D_init(st, in_filters, out_filters, kernel, padding, stride, name, randn) ==
    LET base == BaseModule_init(name)
        w    == Alloc(st.heap, randn)
        b    == Alloc(w.heap, zeros(out_filters))
        gw   == Alloc(b.heap, zeros_like(randn))
        gb   == Alloc(gw.heap, zeros_like(zeros(out_filters)))
        self == Cardinality(DOMAIN st.obj) + 1
        o    == [kind |-> "Conv2D",
                 name |-> base.name,
                 in_features |-> base.in_features,
                 in_filters |-> in_filters,
                 out_filters |-> out_filters,
                 kernel |-> kernel,
                 padding |-> padding,
                 stride |-> stride,
                 weight |-> w.ref,
                 bias |-> b.ref,
                 g_weight |-> gw.ref,
                 g_bias |-> gb.ref,
                 weights |-> ((name \o "_weight") :> w.ref)
                                @@ ((name \o "_bias") :> b.ref),
                 gradients |-> ((name \o "_weight") :> w.ref)
                                @@ ((name \o "_bias") :> b.ref)]
    IN  [obj |-> st.obj @@ (self :> o), heap |-> gb.heap, self |-> self]

\* A slip: the input is not cached.
Conv2D_forwardMutant(self, x, st) ==
    LET o == st.obj[self]
        output == conv_forward(x, st.heap[o.weight], st.heap[o.bias],
                               o.padding, o.stride)
    IN  Returned(st.obj, st.heap, Some(output), <<>>)

Conv2D_forward(self, x, st) ==
    LET o    == st.obj[self]
        o2   == [o EXCEPT !.in_features = Some(x)]
        objs == [st.obj EXCEPT ![self] = o2]
        output == conv_forward(x, st.heap[o2.weight], st.heap[o2.bias],
                               o2.padding, o2.stride)
    IN  Returned(objs, st.heap, Some(output), <<>>)

Conv2D_backward(self, in_gradient, st) ==
    LET o == st.obj[self]
        r == conv_backward(in_gradient, st.heap[o.weight], o.in_features,
                           o.padding, o.stride)
    IN  IF r.exc # None THEN Raised(st.obj, st.heap, r.exc, <<>>)
        ELSE LET gw   == Alloc(st.heap, r.dw)
                 gb   == Alloc(gw.heap, r.db)
                 o2   == [o EXCEPT !.g_weight = gw.ref, !.g_bias = gb.ref]
                 objs == [st.obj EXCEPT ![self] = o2]
             IN  Returned(objs, Collect(objs, gb.heap), Some(r.dz), <<>>)

\* A slip: the gradients are zeroed once they have been applied.
Conv2D_update_gradientMutant(self, lr, st) ==
    LET o  == st.obj[self]
        w  == ISub(st.heap, o.weight, Scale(st.heap[o.g_weight], lr))
        b  == ISub(w.heap, o.bias, Scale(w.heap[o.g_bias], lr))
        h  == [b.heap EXCEPT ![o.g_weight] = zeros_like(@),
                             ![o.g_bias] = zeros_like(@)]
    IN  Returned(st.obj, h, <<>>, <<>>)

Conv2D_update_gradient(self, lr, st) ==
    LET o  == st.obj[self]
        w  == ISub(st.heap, o.weight, Scale(st.heap[o.g_weight], lr))
        o2 == [o EXCEPT !.weight = w.ref]
        b  == ISub(w.heap, o2.bias, Scale(w.heap[o2.g_bias], lr))
        o3 == [o2 EXCEPT !.bias = b.ref]
        objs == [st.obj EXCEPT ![self] = o3]
    IN  Returned(objs, Collect(objs, b.heap), <<>>, <<>>)

(***************************************************************************)
(* Dynamic dispatch of l.forward, l.backward, l.update_gradient            *)
(***************************************************************************)
Layer_forward(l, x, st) ==
    IF st.obj[l].kind = "Linear" THEN Linear_forward(l, x, st)
    ELSE Conv2D_forward(l, x, st)

Layer_backward(l, in_gradient, st) ==
    IF st.obj[l].kind = "Linear" THEN Linear_backward(l, in_gradient, st)
    ELSE Conv2D_backward(l, in_gradient, st)

Layer_update_gradient(l, lr, st) ==
    IF st.obj[l].kind = "Linear" THEN Linear_update_gradient(l, lr, st)
    ELSE Conv2D_update_gradient(l, lr, st)

\* The record of one layer call made by a Model method.
Call(l, method, arg, r) ==
    [layer |-> l, method |-> method, arg |-> arg, ret |-> r.ret, exc |-> r.exc]

(***************************************************************************)
(* class Model                                                             *)
(***************************************************************************)
\* A slip: every layer is handed the Model's input.
RECURSIVE Model_forward_loopMutant(_, _, _, _)
Model_forward_loopMutant(i, x, st, calls) ==
    IF i > Len(st.layers) THEN Returned(st.obj, st.heap, Some(x), calls)
    ELSE LET l == st.layers[i]
             r == Layer_forward(l, x, st)
             c == Append(calls, Call(l, "forward", x, r))
         IN  IF r.exc # None THEN Raised(r.obj, r.heap, r.exc, c)
             ELSE IF i = Len(st.layers) THEN Returned(r.obj, r.heap, r.ret, c)
             ELSE Model_forward_loopMutant(i + 1, x,
                      [st EXCEPT !.obj = r.obj, !.heap = r.heap], c)

\* for l in self.layers: x = l.forward(x); then return x
RECURSIVE Model_forward_loop(_, _, _, _)
Model_forward_loop(i, x, st, calls) ==
    IF i > Len(st.layers) THEN Returned(st.obj, st.heap, Some(x), calls)
    ELSE LET l == st.layers[i]
             r == Layer_forward(l, x, st)
             c == Append(calls, Call(l, "forward", x, r))
         IN  IF r.exc # None THEN Raised(r.obj, r.heap, r.exc, c)
             ELSE Model_forward_loop(i + 1, r.ret[1],
                      [st EXCEPT !.obj = r.obj, !.heap = r.heap], c)

Model_forward(x, st) == Model_forward_loop(1, x, st, <<>>)

\* for l in self.layers: in_gradient = l.backward(in_gradient)
RECURSIVE Model_backward_loop(_, _, _, _)
Model_backward_loop(i, in_gradient, st, calls) ==
    IF i > Len(st.layers) THEN Returned(st.obj, st.heap, <<>>, calls)
    ELSE LET l == st.layers[i]
             r == Layer_backward(l, in_gradient, st)
             c == Append(calls, Call(l, "backward", in_gradient, r))
         IN  IF r.exc # None THEN Raised(r.obj, r.heap, r.exc, c)
             ELSE Model_backward_loop(i + 1, r.ret[1],
                      [st EXCEPT !.obj = r.obj, !.heap = r.heap], c)

Model_backward(in_gradient, st) == Model_backward_loop(1, in_gradient, st, <<>>)

\* A slip: the loop is left after the first layer.
Model_update_gradient_loopMutant(i, lr, st, calls) ==
    IF i > Len(st.layers) THEN Returned(st.obj, st.heap, <<>>, calls)
    ELSE LET l == st.layers[i]
             r == Layer_update_gradient(l, lr, st)
             c == Append(calls, Call(l, "update_gradient", lr, r))
         IN  IF r.exc # None THEN Raised(r.obj, r.heap, r.exc, c)
             ELSE Returned(r.obj, r.heap, <<>>, c)

\* for l in self.layers: l.update_gradient(lr)
RECURSIVE Model_update_gradient_loop(_, _, _, _)
Model_update_gradient_loop(i, lr, st, calls) ==
    IF i > Len(st.layers) THEN Returned(st.obj, st.heap, <<>>, calls)
    ELSE LET l == st.layers[i]
             r == Layer_update_gradient(l, lr, st)
             c == Append(calls, Call(l, "update_gradient", lr, r))
         IN  IF r.exc # None THEN Raised(r.obj, r.heap, r.exc, c)
             ELSE Model_update_gradient_loop(i + 1, lr,
                      [st EXCEPT !.obj = r.obj, !.heap = r.heap], c)

Model_update_gradient(lr, st) == Model_update_gradient_loop(1, lr, st, <<>>)

(***************************************************************************)
(* The programs that build a Model, and the arguments of the calls         *)
(***************************************************************************)
Empty == [obj |-> <<>>, heap |-> <<>>]

\* Model([Linear(2, 2, name="fc1"), Linear(2, 2, name="fc2")])
TwoLinear(randn1, randn2) ==
    LET a == Linear_init(Empty, 2, 2, "fc1", randn1)
        b == Linear_init(a, 2, 2, "fc2", randn2)
    IN  [layers |-> <<a.self, b.self>>, obj |-> b.obj, heap |-> b.heap]

\* m = Model([Linear(2, 3)])
OneLinear(randn) ==
    LET a == Linear_init(Empty, 2, 3, "", randn)
    IN  [layers |-> <<a.self>>, obj |-> a.obj, heap |-> a.heap]

\* Model([Conv2D(1, 2, kernel=(2, 2), padding=(1, 1), stride=(2, 1), name="conv1")])
OneConv(randn) ==
    LET a == Conv2D_init(Empty, 1, 2, <<2, 2>>, <<1, 1>>, <<2, 1>>, "conv1", randn)
    IN  [layers |-> <<a.self>>, obj |-> a.obj, heap |-> a.heap]

\* Model([])
NoLayer == [layers |-> <<>>, obj |-> <<>>, heap |-> <<>>]

Randn22 == {<<Mat(<<<<1, 2>>, <<0, 1>>>>), Mat(<<<<2, 0>>, <<1, 1>>>>)>>}

Randn1222 == {Ten4(<<<< <<<<1, 0>>, <<2, 1>>>>, <<<<0, 1>>, <<1, 3>>>> >>>>)}

Randn23 == {Mat(<<<<3, 7, 4>>, <<5, 2, 6>>>>), Mat(<<<<1, 0, 2>>, <<0, 1, 1>>>>)}

\* The input batches x and the output gradients a caller passes, of the shapes
\* the layers of each program expect.  Learning rates are whole numbers here
\* (the script passes 0.01): the update rule is the same for any factor.
Inputs ==
    [two_linear |-> {Mat(<<<<1, 2>>, <<0, 1>>>>)},
     one_linear |-> {Mat(<<<<1, 2>>>>), Mat(<<<<0, 0>>>>)},
     one_conv   |-> {Ten4(<<<< <<<<1, 2>>, <<0, 1>>>> >>>>),
                     Ten4(<<<< <<<<0, 1>>, <<3, 0>>>> >>>>)},
     no_layer   |-> {Mat(<<<<1, 2>>>>), Mat(<<<<0, 0>>>>)}]

Gradients ==
    [two_linear |-> {Mat(<<<<1, 0>>, <<1, 2>>>>)},
     one_linear |-> {Mat(<<<<-2, -9, -3>>>>), Mat(<<<<1, 0, 2>>>>)},
     one_conv   |-> {Ten4(<<<< <<<<1, 0, 2>>, <<0, 1, 0>>>>,
                               <<<<0, 1, 1>>, <<1, 0, 0>>>> >>>>),
                     Ten4(<<<< <<<<0, 1, 0>>, <<1, 1, 0>>>>,
                               <<<<2, 0, 0>>, <<0, 0, 1>>>> >>>>)},
     no_layer   |-> {Mat(<<<<1, 2>>>>), Mat(<<<<0, 1>>>>)}]

LearningRates == {1, 2}

(***************************************************************************)
(* The state machine: one action per call the program makes                *)
(***************************************************************************)
State == [layers |-> layers, obj |-> obj, heap |-> heap]

Built(m) ==
    /\ layers = m.layers
    /\ obj = m.obj
    /\ heap = m.heap
    /\ log = <<>>

Init ==
    \/ /\ cfg = "two_linear"
       /\ \E r \in Randn22 : Built(TwoLinear(r[1], r[2]))
    \/ /\ cfg = "one_linear"
       /\ \E r \in Randn23 : Built(OneLinear(r))
    \/ /\ cfg = "one_conv"
       /\ \E r \in Randn1222 : Built(OneConv(r))
    \/ /\ cfg = "no_layer"
       /\ Built(NoLayer)

\* The call returns or raises r: its effects are kept and the call is logged.
\* A caller that catches the exception goes on with further calls.
Finish(op, target, arg, r) ==
    /\ Len(log) < MaxCalls
    /\ obj' = r.obj
    /\ heap' = r.heap
    /\ log' = Append(log, [op |-> op, target |-> target, arg |-> arg,
                           ret |-> r.ret, exc |-> r.exc, calls |-> r.calls,
                           pre |-> State])
    /\ UNCHANGED <<layers, cfg>>

CallForward ==
    \E l \in DOMAIN obj, x \in Inputs[cfg] :
        Finish("forward", l, x, Layer_forward(l, x, State))

CallBackward ==
    \E l \in DOMAIN obj, g \in Gradients[cfg] :
        Finish("backward", l, g, Layer_backward(l, g, State))

CallUpdateGradient ==
    \E l \in DOMAIN obj, lr \in LearningRates :
        Finish("update_gradient", l, lr, Layer_update_gradient(l, lr, State))

ModelForward ==
    \E x \in Inputs[cfg] :
        Finish("Model.forward", 0, x, Model_forward(x, State))

ModelBackward ==
    \E g \in Gradients[cfg] :
        Finish("Model.backward", 0, g, Model_backward(g, State))

ModelUpdateGradient ==
    \E lr \in LearningRates :
        Finish("Model.update_gradient", 0, lr, Model_update_gradient(lr, State))

Next ==
    \/ CallForward
    \/ CallBackward
    \/ CallUpdateGradient
    \/ ModelForward
    \/ ModelBackward
    \/ ModelUpdateGradient

Spec == Init /\ [][Next]_vars

(***************************************************************************)
(* Reading the log                                                         *)
(***************************************************************************)
\* The call just made.  A formula about it covers every call of a run, each
\* in the state it leaves: every call is the latest call of some state.
Latest == {Len(log)} \ {0}

\* The state call k left behind.
Post(k) == IF k = Len(log) THEN State ELSE log[k + 1].pre

IsZero(t) == \A p \in DOMAIN t : t[p] = 0

WeightKey(o) == o.name \o "_weight"

BiasKey(o) == o.name \o "_bias"

\* The input call k handed to layer l's forward, if it called it.
FwdArg(k, l) ==
    LET e == log[k]
    IN  IF e.op = "forward" /\ e.target = l THEN Some(e.arg)
        ELSE IF e.op = "Model.forward"
                    /\ \E i \in DOMAIN e.calls : e.calls[i].layer = l
             THEN Some(e.calls[CHOOSE i \in DOMAIN e.calls :
                                   e.calls[i].layer = l].arg)
             ELSE <<>>

\* The input of the most recent forward of layer l among calls 1..k.
RECURSIVE LastInput(_, _)
LastInput(l, k) ==
    IF k = 0 THEN <<>>
    ELSE IF ~IsNone(FwdArg(k, l)) THEN FwdArg(k, l)
    ELSE LastInput(l, k - 1)

\* Call k runs update_gradient(lr) on layer l, directly or through the Model.
Updates(k, l, lr) ==
    LET e == log[k]
    IN  \/ e.op = "update_gradient" /\ e.target = l /\ e.arg = lr
        \/ /\ e.op = "Model.update_gradient"
           /\ e.arg = lr
           /\ \E i \in DOMAIN e.pre.layers : e.pre.layers[i] = l

\* The gradients the layer's numeric helper derives for input z.
Expected(o, h, g, z) ==
    IF o.kind = "Linear" THEN fc_backward(g, h[o.weight], z)
    ELSE conv_backward(g, h[o.weight], z, o.padding, o.stride)

\* The output the layer's numeric helper computes for input x.
ExpectedOutput(o, h, x) ==
    IF o.kind = "Linear" THEN fc_forward(x, h[o.weight], h[o.bias])
    ELSE conv_forward(x, h[o.weight], h[o.bias], o.padding, o.stride)

(***************************************************************************)
(* C1: Model.backward calls the layers' backward in strict reverse list    *)
(* order: the last layer receives the seed gradient, and each earlier      *)
(* layer receives what the layer after it returned.                        *)
(***************************************************************************)
C1_BackwardReverseOrder ==
    \A k \in Latest :
        LET e == log[k]
            n == Len(e.pre.layers)
        IN  (/\ e.op = "Model.backward"
             /\ n >= 2
             /\ \A i \in 1 .. n : ~IsNone(e.pre.obj[e.pre.layers[i]].in_features))
            => /\ Len(e.calls) = n
               /\ \A j \in 1 .. n :
                    /\ e.calls[j].layer = e.pre.layers[n + 1 - j]
                    /\ e.calls[j].method = "backward"
               /\ e.calls[1].arg = e.arg
               /\ \A j \in 1 .. (n - 1) : Some(e.calls[j + 1].arg) = e.calls[j].ret

(***************************************************************************)
(* C2: Model.forward calls each layer's forward once, in list order, the   *)
(* first with x and each next one with what the previous returned, and     *)
(* returns what the last returned (x itself for an empty list).            *)
(***************************************************************************)
C2_ForwardInOrder ==
    \A k \in Latest :
        LET e == log[k]
            n == Len(e.pre.layers)
        IN  e.op = "Model.forward"
            => /\ e.exc = None
               /\ Len(e.calls) = n
               /\ \A j \in 1 .. n :
                    LET l == e.pre.layers[j]
                        a == IF j = 1 THEN e.arg ELSE e.calls[j - 1].ret[1]
                    IN  /\ e.calls[j].layer = l
                        /\ e.calls[j].method = "forward"
                        /\ e.calls[j].arg = a
                        /\ e.calls[j].ret = Some(ExpectedOutput(e.pre.obj[l], e.pre.heap, a))
                        /\ Post(k).obj[l].in_features = Some(a)
               /\ e.ret = IF n = 0 THEN Some(e.arg) ELSE e.calls[n].ret

C2_Witness ==
    \E k \in DOMAIN log :
        /\ log[k].op = "Model.forward"
        /\ Len(log[k].pre.layers) = 2
        /\ log[k].ret # Some(log[k].arg)

(***************************************************************************)
(* C3: Model.update_gradient(lr) updates every layer once with the same    *)
(* lr: each weight and bias becomes its old value minus lr times the       *)
(* stored gradient, in the same buffer.                                    *)
(***************************************************************************)
C3_UpdateEveryLayer ==
    \A k \in Latest :
        LET e    == log[k]
            n    == Len(e.pre.layers)
            post == Post(k)
        IN  e.op = "Model.update_gradient"
            => /\ e.exc = None
               /\ Len(e.calls) = n
               /\ \A i \in 1 .. n :
                    \E j \in 1 .. n :
                        /\ e.calls[j].layer = e.pre.layers[i]
                        /\ e.calls[j].method = "update_gradient"
                        /\ e.calls[j].arg = e.arg
               /\ \A i \in 1 .. n :
                    LET o  == e.pre.obj[e.pre.layers[i]]
                        o2 == post.obj[e.pre.layers[i]]
                    IN  /\ o2.weight = o.weight
                        /\ o2.bias = o.bias
                        /\ post.heap[o.weight]
                             = Descent(e.pre.heap[o.weight], e.pre.heap[o.g_weight], 1, e.arg)
                        /\ post.heap[o.bias]
                             = Descent(e.pre.heap[o.bias], e.pre.heap[o.g_bias], 1, e.arg)

C3_Witness ==
    \E k \in DOMAIN log :
        LET e == log[k]
        IN  /\ e.op = "Model.update_gradient"
            /\ e.arg = 2
            /\ Len(e.pre.layers) = 2
            /\ \A i \in 1 .. 2 :
                 ~IsZero(e.pre.heap[e.pre.obj[e.pre.layers[i]].g_weight])

(***************************************************************************)
(* C4: Model.forward on a Model of one Linear layer returns x.W + b.  For  *)
(* W = [[3,7,4],[5,2,6]], b = [2,9,3], x = [[1,2]] the claim names the     *)
(* output [13,15,17]; x.W + b is [[15,20,19]].                             *)
(***************************************************************************)
\* x[r,0]*W[0,c] + ... + x[r,i]*W[i,c], term by term.
RECURSIVE RowTimesColumn(_, _, _, _, _)
RowTimesColumn(x, W, r, c, i) ==
    IF i < 0 THEN 0 ELSE RowTimesColumn(x, W, r, c, i - 1) + x[r, i] * W[i, c]

\* Call k is Model.forward on a Model holding one Linear layer.
SingleLinearForward(k) ==
    /\ log[k].op = "Model.forward"
    /\ Len(log[k].pre.layers) = 1
    /\ log[k].pre.obj[log[k].pre.layers[1]].kind = "Linear"

\* The output of call k is x.W + b.
IsAffine(k) ==
    LET e == log[k]
        o == e.pre.obj[e.pre.layers[1]]
        W == e.pre.heap[o.weight]
        b == e.pre.heap[o.bias]
        y == e.ret[1]
    IN  /\ DOMAIN y = Axis(e.arg, 1) \X Axis(W, 2)
        /\ \A p \in DOMAIN y :
             y[p] = RowTimesColumn(e.arg, W, p[1], p[2], Size(W, 1) - 1) + b[<<p[2]>>]

\* Call k is the example of the claim.
IsExample(k) ==
    LET e == log[k]
        o == e.pre.obj[e.pre.layers[1]]
    IN  /\ e.pre.heap[o.weight] = Mat(<<<<3, 7, 4>>, <<5, 2, 6>>>>)
        /\ e.pre.heap[o.bias] = Vec(<<2, 9, 3>>)
        /\ e.arg = Mat(<<<<1, 2>>>>)

C4_Original ==
    \A k \in Latest :
        SingleLinearForward(k)
            => /\ IsAffine(k)
               /\ IsExample(k) => log[k].ret = Some(Mat(<<<<13, 15, 17>>>>))

C4_ForwardAffine ==
    \A k \in Latest :
        SingleLinearForward(k)
            => /\ IsAffine(k)
               /\ IsExample(k) => log[k].ret = Some(Mat(<<<<15, 20, 19>>>>))

C4_Witness ==
    \E k \in DOMAIN log : SingleLinearForward(k) /\ IsExample(k)

(***************************************************************************)
(* C5: two update_gradient(lr) calls on a layer with no backward between   *)
(* them leave every parameter at its original value minus 2*lr*gradient,   *)
(* and leave the stored gradient as it was.                                *)
(***************************************************************************)
C5_UpdateTwice ==
    \A k \in {j - 1 : j \in Latest} \ {0} :
    \A l \in DOMAIN obj : \A lr \in LearningRates :
        (Updates(k, l, lr) /\ Updates(k + 1, l, lr))
        => LET pre  == log[k].pre
               post == Post(k + 1)
               o    == pre.obj[l]
               o2   == post.obj[l]
           IN  /\ post.heap[o2.weight]
                    = Descent(pre.heap[o.weight], pre.heap[o.g_weight], 2, lr)
               /\ post.heap[o2.bias]
                    = Descent(pre.heap[o.bias], pre.heap[o.g_bias], 2, lr)
               /\ post.heap[o2.g_weight] = pre.heap[o.g_weight]
               /\ post.heap[o2.g_bias] = pre.heap[o.g_bias]

C5_Witness ==
    \E k \in DOMAIN log : \E l \in DOMAIN obj :
        /\ k < Len(log)
        /\ Updates(k, l, 2)
        /\ Updates(k + 1, l, 2)
        /\ obj[l].kind = "Conv2D"
        /\ ~IsZero(log[k].pre.heap[log[k].pre.obj[l].g_weight])
        /\ ~IsZero(log[k].pre.heap[log[k].pre.obj[l].g_bias])

(***************************************************************************)
(* C6: the buffers under the keys of the gradients mapping are not the     *)
(* parameter buffers: they are zero after construction and hold the        *)
(* gradients of the latest backward afterwards.                            *)
(***************************************************************************)
C6_GradientBuffers ==
    \A l \in DOMAIN obj :
        LET o == obj[l]
        IN  /\ o.gradients[WeightKey(o)] \notin {o.weight, o.bias}
            /\ o.gradients[BiasKey(o)] \notin {o.weight, o.bias}
            /\ heap[o.gradients[WeightKey(o)]] = heap[o.g_weight]
            /\ heap[o.gradients[BiasKey(o)]] = heap[o.g_bias]
            /\ IsNone(LastInput(l, Len(log)))
                 => /\ IsZero(heap[o.gradients[WeightKey(o)]])
                    /\ IsZero(heap[o.gradients[BiasKey(o)]])

(***************************************************************************)
(* C7: backward on a layer that has seen no forward, or on a Model that    *)
(* has seen no forward and holds such a layer, is rejected (the call       *)
(* raises), and no layer's parameters or gradients change.                 *)
(***************************************************************************)
\* Call k is a backward with no forward before it on the same target.
BackwardBeforeForward(k) ==
    \/ /\ log[k].op = "backward"
       /\ IsNone(LastInput(log[k].target, k - 1))
    \/ /\ log[k].op = "Model.backward"
       /\ \A j \in 1 .. (k - 1) : log[j].op # "Model.forward"
       /\ \E i \in DOMAIN log[k].pre.layers :
            IsNone(LastInput(log[k].pre.layers[i], k - 1))

C7_BackwardBeforeForwardRejected ==
    \A k \in Latest :
        BackwardBeforeForward(k)
            => /\ log[k].exc # None
               /\ Post(k).heap = log[k].pre.heap
               /\ Post(k).obj = log[k].pre.obj

(***************************************************************************)
(* C8: forward(x) on a layer changes the layer's cached input, which       *)
(* becomes x, and nothing else: no weight, bias or stored gradient.        *)
(***************************************************************************)
C8_ForwardFrame ==
    \A k \in Latest :
        LET e == log[k]
        IN  /\ e.op = "forward"
                => /\ Post(k).heap = e.pre.heap
                   /\ Post(k).obj
                        = [e.pre.obj EXCEPT ![e.target].in_features = Some(e.arg)]
            /\ e.op = "Model.forward"
                => /\ Post(k).heap = e.pre.heap
                   /\ \A l \in DOMAIN e.pre.obj :
                        Post(k).obj[l]
                            = [e.pre.obj[l] EXCEPT !.in_features = LastInput(l, k)]

C8_Witness ==
    \E k \in DOMAIN log :
        LET e == log[k]
        IN  /\ e.op = "forward"
            /\ e.pre.obj[e.target].kind = "Conv2D"
            /\ ~IsZero(e.pre.heap[e.pre.obj[e.target].g_weight])
            /\ ~IsNone(e.pre.obj[e.target].in_features)
            /\ e.pre.obj[e.target].in_features # Some(e.arg)

(***************************************************************************)
(* C9: backward(g) on a layer derives the gradients from the input of the  *)
(* most recent forward, replaces the stored gradients by them, and leaves  *)
(* weight, bias and cached input alone.                                    *)
(***************************************************************************)
C9_BackwardFrame ==
    \A k \in Latest :
        LET e    == log[k]
            l    == e.target
            z    == LastInput(l, k - 1)
            o    == e.pre.obj[l]
            post == Post(k)
            o2   == post.obj[l]
            want == Expected(o, e.pre.heap, e.arg, z)
        IN  (e.op = "backward" /\ ~IsNone(z))
            => /\ e.exc = None
               /\ e.ret = Some(want.dz)
               /\ post.heap[o2.g_weight] = want.dw
               /\ post.heap[o2.g_bias] = want.db
               /\ o2 = [o EXCEPT !.g_weight = o2.g_weight, !.g_bias = o2.g_bias]
               /\ post.heap[o2.weight] = e.pre.heap[o.weight]
               /\ post.heap[o2.bias] = e.pre.heap[o.bias]
               /\ \A m \in DOMAIN e.pre.obj \ {l} :
                    /\ post.obj[m] = e.pre.obj[m]
                    /\ \A r \in RefsOf(e.pre.obj[m]) : post.heap[r] = e.pre.heap[r]

C9_Witness ==
    \E k \in DOMAIN log :
        LET e == log[k]
            l == e.target
        IN  /\ e.op = "backward"
            /\ e.exc = None
            /\ ~IsZero(e.pre.heap[e.pre.obj[l].g_weight])
            /\ ~IsZero(heap[obj[l].g_weight])
            /\ \E j \in 1 .. (k - 1) :
                 /\ ~IsNone(FwdArg(j, l))
                 /\ FwdArg(j, l) # LastInput(l, k - 1)

(***************************************************************************)
(* C10: the weights mapping always holds, under '<name>_weight' and        *)
(* '<name>_bias', the layer's current weight and bias.                     *)
(***************************************************************************)
C10_WeightsMappingCurrent ==
    \A l \in DOMAIN obj :
        LET o == obj[l]
        IN  /\ DOMAIN o.weights = {WeightKey(o), BiasKey(o)}
            /\ o.weights[WeightKey(o)] = o.weight
            /\ o.weights[BiasKey(o)] = o.bias

C10_Witness ==
    \E k \in DOMAIN log : \E l \in DOMAIN obj : \E lr \in LearningRates :
        /\ Updates(k, l, lr)
        /\ heap[obj[l].weight] # log[k].pre.heap[log[k].pre.obj[l].weight]
        /\ heap[obj[l].bias] # log[k].pre.heap[log[k].pre.obj[l].bias]

====
